---- MODULE Spec2Model ----
(***************************************************************************)
(* Model of src/src/data_fetcher.py: the fee parser, the normalizer        *)
(* (process_transfer_data), the summarizer (generate_transfer_summary)     *)
(* and the main() pipeline.                                                *)
(*                                                                         *)
(* Texts are sequences of one-character strings.  Floats are modelled as   *)
(* exact reduced rationals [k |-> "num", n, d], plus the two non-finite    *)
(* values float() can produce from a text, NaN and +-inf.                  *)
(***************************************************************************)
EXTENDS Integers, Sequences, FiniteSets, TLC

VARIABLES pc, fee_string, fee_result, transfers, df, summary, file, console, exc

vars == <<pc, fee_string, fee_result, transfers, df, summary, file, console, exc>>

(***************************************************************************)
(* Bounds of the model.                                                    *)
(***************************************************************************)
MaxLen == 4

(***************************************************************************)
(* Floats.                                                                 *)
(***************************************************************************)
Abs(x) == IF x < 0 THEN -x ELSE x

RECURSIVE Gcd(_, _)
Gcd(a, b) == IF b = 0 THEN a ELSE Gcd(b, a % b)

RECURSIVE Pow10(_)
Pow10(e) == IF e = 0 THEN 1 ELSE 10 * Pow10(e - 1)

\* the float (n/d) * 10^e, d > 0, in its one canonical form: n/d reduced,
\* n no multiple of 10, d with no factor 2 or 5
RECURSIVE Norm(_, _, _)
Norm(n, d, e) ==
    LET g == Gcd(Abs(n), d)
    IN  IF n = 0 THEN [k |-> "num", n |-> 0, d |-> 1, e |-> 0]
        ELSE IF g > 1 THEN Norm(n \div g, d \div g, e)
        ELSE IF n % 10 = 0 THEN Norm(n \div 10, d, e + 1)
        ELSE IF d % 2 = 0 THEN Norm(n * 5, d \div 2, e - 1)
        ELSE IF d % 5 = 0 THEN Norm(n * 2, d \div 5, e - 1)
        ELSE [k |-> "num", n |-> n, d |-> d, e |-> e]

\* the rational n/d
Rat(n, d) == Norm(n, d, 0)

Num(n) == Rat(n, 1)
NaN == [k |-> "nan", n |-> 0, d |-> 1, e |-> 0]
Inf(sign) == [k |-> "inf", n |-> sign, d |-> 1, e |-> 0]

IsNaN(x) == x.k = "nan"
IsNum(x) == x.k = "num"

\* x / c for a positive integer c (float division by a literal or a count)
DivInt(x, c) == IF x.k = "num" THEN Norm(x.n, x.d * c, x.e) ELSE x

\* the numerators of x and y over the common denominator x.d * y.d * 10^-e,
\* e the smaller exponent
Lo(x, y) == IF x.e < y.e THEN x.e ELSE y.e
Over(x, y) == x.n * Pow10(x.e - Lo(x, y)) * y.d

Add(x, y) == Norm(Over(x, y) + Over(y, x), x.d * y.d, Lo(x, y))
Less(x, y) == Over(x, y) < Over(y, x)

(***************************************************************************)
(* str methods used by the parser.                                         *)
(***************************************************************************)
LowerChar(c) ==
    CASE c = "M" -> "m" [] c = "K" -> "k" [] c = "F" -> "f" [] c = "R" -> "r"
      [] c = "E" -> "e" [] c = "L" -> "l" [] c = "O" -> "o" [] c = "A" -> "a"
      [] c = "N" -> "n" [] c = "T" -> "t" [] c = "S" -> "s" [] c = "I" -> "i"
      [] OTHER -> c

\* str.lower()
Lower(s) == [i \in 1..Len(s) |-> LowerChar(s[i])]

\* str.replace(c, ''): every occurrence of the character c is removed
RECURSIVE Remove(_, _)
Remove(s, c) ==
    IF s = <<>> THEN <<>>
    ELSE IF Head(s) = c THEN Remove(Tail(s), c)
    ELSE <<Head(s)>> \o Remove(Tail(s), c)

\* c in s
Contains(s, c) == \E i \in 1..Len(s) : s[i] = c

(***************************************************************************)
(* float(text): optional sign, then "nan" / "inf" / "infinity" in any      *)
(* case, or decimal digits with at most one point and at least one digit.  *)
(* Anything else raises ValueError.                                        *)
(***************************************************************************)
Digits == {"0", "1", "2", "3", "4", "5", "6", "7", "8", "9"}

DigitVal(c) ==
    CASE c = "0" -> 0 [] c = "1" -> 1 [] c = "2" -> 2 [] c = "3" -> 3
      [] c = "4" -> 4 [] c = "5" -> 5 [] c = "6" -> 6 [] c = "7" -> 7
      [] c = "8" -> 8 [] c = "9" -> 9

\* value of a digit string read as an integer
RECURSIVE IntOf(_)
IntOf(s) == IF s = <<>> THEN 0 ELSE 10 * IntOf(SubSeq(s, 1, Len(s) - 1)) + DigitVal(s[Len(s)])

IsDecimal(s) ==
    /\ \A i \in 1..Len(s) : s[i] \in Digits \cup {"."}
    /\ Cardinality({i \in 1..Len(s) : s[i] = "."}) <= 1
    /\ \E i \in 1..Len(s) : s[i] \in Digits

DecimalOf(s) ==
    LET dots == {i \in 1..Len(s) : s[i] = "."}
        frac == IF dots = {} THEN 0 ELSE Len(s) - (CHOOSE i \in dots : TRUE)
    IN  Norm(IntOf(Remove(s, ".")), 1, -frac)

HasSign(s) == s # <<>> /\ Head(s) \in {"-", "+"}
Unsigned(s) == IF HasSign(s) THEN Tail(s) ELSE s
SignOf(s) == IF s # <<>> /\ Head(s) = "-" THEN -1 ELSE 1

IsNanWord(s) == Lower(s) = <<"n", "a", "n">>
IsInfWord(s) ==
    Lower(s) \in {<<"i", "n", "f">>, <<"i", "n", "f", "i", "n", "i", "t", "y">>}

\* float(s) does not raise ValueError
FloatOk(s) ==
    LET u == Unsigned(s) IN IsDecimal(u) \/ IsNanWord(u) \/ IsInfWord(u)

\* float(s), for FloatOk(s)
FloatOf(s) ==
    LET u == Unsigned(s)
    IN  IF IsNanWord(u) THEN NaN
        ELSE IF IsInfWord(u) THEN Inf(SignOf(s))
        ELSE LET v == DecimalOf(u) IN Norm(SignOf(s) * v.n, v.d, v.e)

(***************************************************************************)
(* _parse_transfer_fee                                                     *)
(***************************************************************************)
Thousand == 1000
Million == 1000000

NoFeeWords ==
    { <<"f", "r", "e", "e">>,
      <<"f", "r", "e", "e", " ", "t", "r", "a", "n", "s", "f", "e", "r">>,
      <<"l", "o", "a", "n">>,
      <<"-">> }

\* line 143: not fee_string or fee_string.lower() in [...]
IsNoFee(s) == s = <<>> \/ Lower(s) \in NoFeeWords

\* line 147
FeeClean(s) == Remove(Remove(Remove(Remove(s, "€"), "£"), "$"), " ")

\* mutant of ScaleFee: the K branch scaled like a raw amount
ScaleFeeKAsRaw(clean) ==
    IF Contains(clean, "M")
    THEN LET t == Remove(clean, "M") IN IF FloatOk(t) THEN FloatOf(t) ELSE Num(0)
    ELSE IF Contains(clean, "K")
    THEN LET t == Remove(clean, "K")
         IN  IF FloatOk(t) THEN DivInt(FloatOf(t), Million) ELSE Num(0)
    ELSE IF FloatOk(clean) THEN DivInt(FloatOf(clean), Million) ELSE Num(0)

\* lines 149-157
ScaleFee(clean) ==
    IF Contains(clean, "M")
    THEN LET t == Remove(clean, "M") IN IF FloatOk(t) THEN FloatOf(t) ELSE Num(0)
    ELSE IF Contains(clean, "K")
    THEN LET t == Remove(clean, "K")
         IN  IF FloatOk(t) THEN DivInt(FloatOf(t), Thousand) ELSE Num(0)
    ELSE IF FloatOk(clean) THEN DivInt(FloatOf(clean), Million) ELSE Num(0)

ParseTransferFee(s) == IF IsNoFee(s) THEN Num(0) ELSE ScaleFee(FeeClean(s))

(***************************************************************************)
(* JSON values of a raw transfer.  A leaf is absent, null, a text or a     *)
(* number; a sub-mapping slot (player, from_club, to_club) is absent, a    *)
(* mapping, or a value that is no mapping (null, a text).                  *)
(***************************************************************************)
Absent == [t |-> "absent", s |-> <<>>, n |-> 0]
Null == [t |-> "null", s |-> <<>>, n |-> 0]
Str(s) == [t |-> "str", s |-> s, n |-> 0]
Int0(n) == [t |-> "num", s |-> <<>>, n |-> n]

NoPlayerMap ==
    [id |-> Absent, name |-> Absent, age |-> Absent, position |-> Absent,
     nationality |-> Absent, market_value |-> Absent]
NoClubMap == [id |-> Absent, name |-> Absent, league |-> Absent]

PlayerSlot(t, f) == [t |-> t, f |-> f]
ClubSlot(t, f) == [t |-> t, f |-> f]

\* mutant of Get: the lookup written without its default
GetNoDefault(leaf, default) == IF leaf.t = "absent" THEN Null ELSE leaf

\* dict.get(key, default): the default only when the key is absent
Get(leaf, default) == IF leaf.t = "absent" THEN default ELSE leaf

\* transfer.get('player', {}).get(...) raises AttributeError when the value
\* stored under the key is not a mapping (None, a str)
SlotRaises(slot) == slot.t \notin {"absent", "map"}
SlotMap(slot, empty) == IF slot.t = "map" THEN slot.f ELSE empty

\* self._parse_transfer_fee(transfer.get('fee', '')): a falsy value of any
\* type returns 0.0 at line 143; a truthy value that is no str has no
\* .lower() and raises AttributeError
FeeArg(leaf) == Get(leaf, Str(<<>>))
FeeRaises(leaf) == LET a == FeeArg(leaf) IN a.t = "num" /\ a.n # 0
FeeOf(leaf) ==
    LET a == FeeArg(leaf)
    IN  IF a.t = "str" THEN ParseTransferFee(a.s) ELSE Num(0)

(***************************************************************************)
(* pandas conversions of lines 126-129 (errors='coerce').                  *)
(***************************************************************************)
NaT == [k |-> "nat", y |-> 0, m |-> 0, d |-> 0]
Date(y, m, d) == [k |-> "date", y |-> y, m |-> m, d |-> d]

IsLeap(y) == (y % 4 = 0 /\ y % 100 # 0) \/ y % 400 = 0
DaysIn(y, m) ==
    IF m = 2 THEN (IF IsLeap(y) THEN 29 ELSE 28)
    ELSE IF m \in {4, 6, 9, 11} THEN 30 ELSE 31

\* a text of the form YYYY-MM-DD
IsIsoShape(s) ==
    /\ Len(s) = 10
    /\ s[5] = "-" /\ s[8] = "-"
    /\ \A i \in {1, 2, 3, 4, 6, 7, 9, 10} : s[i] \in Digits

\* pd.to_datetime(..., errors='coerce') of one cell: a date for a valid
\* calendar date, NaT for None and for any text that is no date
ToDatetime(leaf) ==
    CASE leaf.t = "null" -> NaT
      [] leaf.t = "str" ->
            IF ~IsIsoShape(leaf.s) THEN NaT
            ELSE LET y == IntOf(SubSeq(leaf.s, 1, 4))
                     m == IntOf(SubSeq(leaf.s, 6, 7))
                     d == IntOf(SubSeq(leaf.s, 9, 10))
                 IN  IF y >= 1 /\ m \in 1..12 /\ d \in 1..DaysIn(y, m)
                     THEN Date(y, m, d) ELSE NaT

\* pd.to_numeric(..., errors='coerce') of one cell
ToNumeric(leaf) ==
    CASE leaf.t = "null" -> NaN
      [] leaf.t = "num" -> Num(leaf.n)
      [] leaf.t = "str" -> IF FloatOk(leaf.s) THEN FloatOf(leaf.s) ELSE NaN

(***************************************************************************)
(* process_transfer_data                                                   *)
(***************************************************************************)
FlatFields ==
    {"player_id", "player_name", "player_age", "player_position",
     "player_nationality", "from_club_id", "from_club_name", "from_club_league",
     "to_club_id", "to_club_name", "to_club_league", "transfer_fee",
     "transfer_fee_currency", "transfer_date", "transfer_type",
     "contract_duration", "season", "market_value"}

EUR == Str(<<"E", "U", "R">>)

\* the leaf default of the age lookup at line 103
DefaultAge == Int0(0)

\* lines 100-119 raise AttributeError
RecordRaises(tr) ==
    \/ SlotRaises(tr.player)
    \/ SlotRaises(tr.from_club)
    \/ SlotRaises(tr.to_club)
    \/ FeeRaises(tr.fee)

\* lines 100-119 followed by the column conversions of lines 126-129
FlatRecord(tr) ==
    LET p == SlotMap(tr.player, NoPlayerMap)
        f == SlotMap(tr.from_club, NoClubMap)
        c == SlotMap(tr.to_club, NoClubMap)
    IN  [player_id |-> Get(p.id, Str(<<>>)),
         player_name |-> Get(p.name, Str(<<>>)),
         player_age |-> ToNumeric(Get(p.age, DefaultAge)),
         player_position |-> Get(p.position, Str(<<>>)),
         player_nationality |-> Get(p.nationality, Str(<<>>)),
         from_club_id |-> Get(f.id, Str(<<>>)),
         from_club_name |-> Get(f.name, Str(<<>>)),
         from_club_league |-> Get(f.league, Str(<<>>)),
         to_club_id |-> Get(c.id, Str(<<>>)),
         to_club_name |-> Get(c.name, Str(<<>>)),
         to_club_league |-> Get(c.league, Str(<<>>)),
         transfer_fee |-> FeeOf(tr.fee),
         transfer_fee_currency |-> Get(tr.fee_currency, EUR),
         transfer_date |-> ToDatetime(Get(tr.date, Str(<<>>))),
         transfer_type |-> Get(tr.type, Str(<<>>)),
         contract_duration |-> Get(tr.contract_duration, Str(<<>>)),
         season |-> Get(tr.season, Str(<<>>)),
         market_value |-> ToNumeric(Get(p.market_value, Int0(0)))]

\* the loop of lines 99-120 raises at the first record that does
ProcessRaises(trs) == \E i \in 1..Len(trs) : RecordRaises(trs[i])

\* the DataFrame of lines 122-131: one row per record, in input order
ProcessTransferData(trs) == [i \in 1..Len(trs) |-> FlatRecord(trs[i])]

(***************************************************************************)
(* pandas Series reductions used by generate_transfer_summary.  A Series   *)
(* is a sequence of floats; positions 1..n stand for the RangeIndex        *)
(* labels 0..n-1 of the DataFrame built at line 122.                       *)
(***************************************************************************)
Column(table, field) == [i \in 1..Len(table) |-> table[i][field]]

\* the cells a reduction looks at: NaN is skipped (skipna=True)
Valid(xs) == {i \in 1..Len(xs) : ~IsNaN(xs[i])}

RECURSIVE SumOver(_, _)
SumOver(xs, idx) ==
    IF idx = {} THEN Num(0)
    ELSE LET i == CHOOSE j \in idx : TRUE
         IN  Add(xs[i], SumOver(xs, idx \ {i}))

\* Series.sum(): 0 for a Series with no valid cell
SeriesSum(xs) == SumOver(xs, Valid(xs))

\* mutant of SeriesMean: NaN cells counted in the divisor, as zeros
SeriesMeanNaNAsZero(xs) == DivInt(SeriesSum(xs), Len(xs))

\* Series.mean(): NaN for a Series with no valid cell
SeriesMean(xs) ==
    IF Valid(xs) = {} THEN NaN
    ELSE DivInt(SeriesSum(xs), Cardinality(Valid(xs)))

\* Series.max(): NaN for a Series with no valid cell
SeriesMax(xs) ==
    IF Valid(xs) = {} THEN NaN
    ELSE LET i == CHOOSE j \in Valid(xs) :
                      \A l \in Valid(xs) : ~Less(xs[j], xs[l])
         IN  xs[i]

\* mutant of IdxMax: the last position holding the maximum
IdxMaxLast(xs) ==
    CHOOSE i \in Valid(xs) :
        /\ xs[i] = SeriesMax(xs)
        /\ \A j \in Valid(xs) : xs[j] = SeriesMax(xs) => j <= i

\* Series.idxmax(): the first position holding the maximum
IdxMax(xs) ==
    CHOOSE i \in Valid(xs) :
        /\ xs[i] = SeriesMax(xs)
        /\ \A j \in Valid(xs) : xs[j] = SeriesMax(xs) => i <= j

\* the valid cells in ascending order
RECURSIVE SortedOver(_, _)
SortedOver(xs, idx) ==
    IF idx = {} THEN <<>>
    ELSE LET i == CHOOSE j \in idx : \A l \in idx : ~Less(xs[l], xs[j])
         IN  <<xs[i]>> \o SortedOver(xs, idx \ {i})

\* Series.median(): the middle valid cell, or the mean of the two middle ones
SeriesMedian(xs) ==
    LET v == SortedOver(xs, Valid(xs))
        n == Len(v)
    IN  IF n = 0 THEN NaN
        ELSE IF n % 2 = 1 THEN v[(n + 1) \div 2]
        ELSE DivInt(Add(v[n \div 2], v[n \div 2 + 1]), 2)

(***************************************************************************)
(* groupby(key)['transfer_fee'].sum(): rows whose key is null are dropped, *)
(* the groups come out sorted by key, each group's sum skips NaN.          *)
(***************************************************************************)
CharCode(c) ==
    CASE c = "0" -> 48 [] c = "1" -> 49 [] c = "2" -> 50 [] c = "3" -> 51
      [] c = "4" -> 52 [] c = "5" -> 53 [] c = "6" -> 54 [] c = "7" -> 55
      [] c = "8" -> 56 [] c = "9" -> 57 [] c = "A" -> 65 [] c = "B" -> 66
      [] c = "C" -> 67 [] c = "X" -> 88 [] c = "Y" -> 89 [] c = "Z" -> 90

\* s < t for two texts (str comparison)
RECURSIVE TextLess(_, _)
TextLess(s, t) ==
    IF t = <<>> THEN FALSE
    ELSE IF s = <<>> THEN TRUE
    ELSE IF Head(s) = Head(t) THEN TextLess(Tail(s), Tail(t))
    ELSE CharCode(Head(s)) < CharCode(Head(t))

RECURSIVE SortedKeys(_)
SortedKeys(keys) ==
    IF keys = {} THEN <<>>
    ELSE LET k == CHOOSE a \in keys : \A b \in keys : ~TextLess(b.s, a.s)
         IN  <<k>> \o SortedKeys(keys \ {k})

GroupKeys(keycol) == {keycol[i] : i \in {j \in 1..Len(keycol) : keycol[j].t # "null"}}

\* the grouped sums as a Series in key order: <<[club, total], ...>>
GroupSum(keycol, xs) ==
    LET ks == SortedKeys(GroupKeys(keycol))
    IN  [g \in 1..Len(ks) |->
            [club |-> ks[g],
             total |-> SumOver(xs, {i \in Valid(xs) : keycol[i] = ks[g]})]]

TopN == 10

\* Series.nlargest(n): the n largest values in descending order; among equal
\* values the one met first in the Series comes first (keep='first')
RECURSIVE NLargest(_, _)
NLargest(n, series) ==
    IF n = 0 \/ series = <<>> THEN <<>>
    ELSE LET i == CHOOSE j \in 1..Len(series) :
                      /\ \A l \in 1..Len(series) : ~Less(series[j].total, series[l].total)
                      /\ \A l \in 1..(j - 1) : Less(series[l].total, series[j].total)
             rest == [l \in 1..(Len(series) - 1) |->
                         IF l < i THEN series[l] ELSE series[l + 1]]
         IN  <<series[i]>> \o NLargest(n - 1, rest)

\* mutant of TopClubs: the cut taken one entry too late
TopClubsOffByOne(table, field) ==
    NLargest(TopN + 1, GroupSum(Column(table, field), Column(table, "transfer_fee")))

\* lines 185-186
TopClubs(table, field) ==
    NLargest(TopN, GroupSum(Column(table, field), Column(table, "transfer_fee")))

\* mutant of Months: rows without a date grouped too, under the month of NaT
MonthsKeepNaT(table) == {table[i].transfer_date.m : i \in 1..Len(table)}

\* line 184: the month of NaT is NaN and that row is dropped by groupby
Months(table) ==
    {table[i].transfer_date.m :
        i \in {j \in 1..Len(table) : table[j].transfer_date.k = "date"}}

TransfersByMonth(table) ==
    LET xs == Column(table, "transfer_fee")
    IN  [m \in Months(table) |->
            SumOver(xs, {i \in Valid(xs) :
                            /\ table[i].transfer_date.k = "date"
                            /\ table[i].transfer_date.m = m})]

\* line 183: value_counts() leaves null positions out
TransfersByPosition(table) ==
    LET col == Column(table, "player_position")
    IN  [p \in GroupKeys(col) |-> Cardinality({i \in 1..Len(col) : col[i] = p})]

\* lines 177-182: each name is looked up only when some fee is not NaN
MostExpensive(table) ==
    LET xs == Column(table, "transfer_fee")
        allna == Valid(xs) = {}
    IN  [player |-> IF ~allna THEN table[IdxMax(xs)].player_name ELSE Str(<<>>),
         fee |-> SeriesMax(xs),
         from_club |-> IF ~allna THEN table[IdxMax(xs)].from_club_name ELSE Str(<<>>),
         to_club |-> IF ~allna THEN table[IdxMax(xs)].to_club_name ELSE Str(<<>>)]

EmptySummary == [empty |-> TRUE]

\* generate_transfer_summary
GenerateTransferSummary(table) ==
    IF table = <<>> THEN EmptySummary
    ELSE LET xs == Column(table, "transfer_fee")
         IN  [empty |-> FALSE,
              total_transfers |-> Len(table),
              total_spending |-> SeriesSum(xs),
              average_fee |-> SeriesMean(xs),
              median_fee |-> SeriesMedian(xs),
              most_expensive_transfer |-> MostExpensive(table),
              transfers_by_position |-> TransfersByPosition(table),
              transfers_by_month |-> TransfersByMonth(table),
              top_spending_clubs |-> TopClubs(table, "to_club_name"),
              top_selling_clubs |-> TopClubs(table, "from_club_name")]

(***************************************************************************)
(* Inputs.                                                                 *)
(***************************************************************************)
MaxRaw == 2
MaxFetch == 2
MaxRows == 3
MaxTopRows == 11

SeqsUpTo(S, n) == UNION {[1..l -> S] : l \in 0..n}

FeeAlphabet == {"€", " ", "M", "K", "1", "5", ".", "-", "g"}

FeeSamples ==
    { <<"f", "r", "e", "e">>, <<"F", "R", "E", "E">>, <<"F", "r", "e", "e">>, <<"f", "r", "e", "e", " ", "t", "r", "a", "n", "s", "f", "e", "r">>, <<"F", "r", "e", "e", " ", "t", "r", "a", "n", "s", "f", "e", "r">>,
      <<"F", "R", "E", "E", " ", "T", "R", "A", "N", "S", "F", "E", "R">>, <<"l", "o", "a", "n">>, <<"L", "o", "a", "n">>, <<"L", "O", "A", "N">>, <<" ", "f", "r", "e", "e">>,
      <<"g", "a", "r", "b", "a", "g", "e">>, <<"€", "1", "0", "0", "M">>, <<"5", "0", "0", "K">>, <<"5", "0", "0", "0", "0", "0">>, <<"£", "2", ".", "5", "M">>, <<"$", "7", "5", "0", "K">>,
      <<"€", " ", "1", "2", ".", "5", " ", "M">>, <<"1", "0", "0", "m">>, <<"n", "a", "n">>, <<"N", "a", "N">>, <<"i", "n", "f">>, <<"-", "i", "n", "f", "M">>, <<"+", "5", "K">>, <<"1", "M", "2", "M">> }

FeeTexts == SeqsUpTo(FeeAlphabet, MaxLen) \cup FeeSamples

PlayerA ==
    [id |-> Str(<<"1", "1">>), name |-> Str(<<"P", "1">>), age |-> Int0(25),
     position |-> Str(<<"C", "F">>), nationality |-> Str(<<"B", "R">>), market_value |-> Int0(50)]
PlayerB ==
    [id |-> Str(<<"1", "2">>), name |-> Str(<<"P", "2">>), age |-> Str(<<"3", "1">>),
     position |-> Str(<<"G", "K">>), nationality |-> Null, market_value |-> Str(<<"7", ".", "5">>)]
Club(id, name) == [id |-> Str(id), name |-> Str(name), league |-> Str(<<"G", "B", "1">>)]

FullA ==
    [player |-> PlayerSlot("map", PlayerA),
     from_club |-> ClubSlot("map", Club(<<"7">>, <<"X">>)),
     to_club |-> ClubSlot("map", Club(<<"1">>, <<"A">>)),
     fee |-> Str(<<"€", "1", "0", "0", "M">>), fee_currency |-> Str(<<"G", "B", "P">>),
     date |-> Str(<<"2", "0", "2", "5", "-", "0", "7", "-", "0", "1">>), type |-> Str(<<"p", "e", "r", "m", "a", "n", "e", "n", "t">>),
     contract_duration |-> Str(<<"3">>), season |-> Str(<<"2", "0", "2", "5">>)]
FullB ==
    [player |-> PlayerSlot("map", PlayerB),
     from_club |-> ClubSlot("map", Club(<<"8">>, <<"Y">>)),
     to_club |-> ClubSlot("map", Club(<<"2">>, <<"B">>)),
     fee |-> Str(<<"5", "0", "0", "K">>), fee_currency |-> Absent,
     date |-> Str(<<"2", "0", "2", "5", "-", "0", "1", "-", "1", "5">>), type |-> Str(<<"l", "o", "a", "n">>),
     contract_duration |-> Absent, season |-> Str(<<"2", "0", "2", "5">>)]

\* the empty mapping {}
EmptyRaw ==
    [player |-> PlayerSlot("absent", NoPlayerMap),
     from_club |-> ClubSlot("absent", NoClubMap),
     to_club |-> ClubSlot("absent", NoClubMap),
     fee |-> Absent, fee_currency |-> Absent, date |-> Absent, type |-> Absent,
     contract_duration |-> Absent, season |-> Absent]

\* FullA with one field absent or of another JSON type
SlotVariants ==
    {[FullA EXCEPT ![k] = v] :
        k \in {"from_club", "to_club"},
        v \in {ClubSlot("absent", NoClubMap), ClubSlot("null", NoClubMap),
               ClubSlot("str", NoClubMap), ClubSlot("map", NoClubMap),
               ClubSlot("map", [id |-> Null, name |-> Null, league |-> Null])}}
PlayerVariants ==
    {[FullA EXCEPT !.player = v] :
        v \in {PlayerSlot("absent", NoPlayerMap), PlayerSlot("null", NoPlayerMap),
               PlayerSlot("str", NoPlayerMap), PlayerSlot("map", NoPlayerMap)}
              \cup {PlayerSlot("map", [PlayerA EXCEPT !.age = a]) :
                        a \in {Absent, Null, Str(<<"a", "b", "c">>), Str(<<"2", "5">>)}}
              \cup {PlayerSlot("map", [PlayerA EXCEPT !.market_value = a]) :
                        a \in {Absent, Null, Str(<<"a", "b", "c">>)}}}
FeeVariants ==
    {[FullA EXCEPT !.fee = v] :
        v \in {Absent, Null, Int0(0), Int0(100), Str(<<>>), Str(<<"g", "a", "r", "b", "a", "g", "e">>),
               Str(<<"F", "r", "e", "e", " ", "t", "r", "a", "n", "s", "f", "e", "r">>), Str(<<"5", "0", "0", "0", "0", "0">>), Str(<<"n", "a", "n">>)}}
DateVariants ==
    {[FullA EXCEPT !.date = v] :
        v \in {Absent, Null, Str(<<>>), Str(<<"g", "a", "r", "b", "a", "g", "e">>), Str(<<"2", "0", "2", "5", "-", "1", "3", "-", "0", "1">>),
               Str(<<"2", "0", "2", "5", "-", "0", "2", "-", "3", "0">>), Str(<<"2", "0", "2", "4", "-", "0", "2", "-", "2", "9">>)}}
ScalarVariants ==
    {[FullA EXCEPT ![k] = v] :
        k \in {"fee_currency", "type", "contract_duration", "season"},
        v \in {Absent, Null, Int0(3)}}

RawRecords ==
    {EmptyRaw, FullA, FullB} \cup SlotVariants \cup PlayerVariants
        \cup FeeVariants \cup DateVariants \cup ScalarVariants

\* what the API may answer in the main run
FetchRecords ==
    {EmptyRaw, FullA, FullB, [FullA EXCEPT !.fee = Int0(100)],
     [FullB EXCEPT !.date = Str(<<"g", "a", "r", "b", "a", "g", "e">>)], [FullB EXCEPT !.fee = Str(<<"n", "a", "n">>)]}

\* a row of a table handed to generate_transfer_summary
Row(name, from, to, fee, date, pos) ==
    [FlatRecord(EmptyRaw) EXCEPT
        !.player_name = name, !.from_club_name = from, !.to_club_name = to,
        !.transfer_fee = fee, !.transfer_date = date, !.player_position = pos]

SummaryRows ==
    { Row(Str(<<"P", "1">>), Str(<<"X">>), Str(<<"A">>), Num(10), Date(2025, 7, 1), Str(<<"C", "F">>)),
      Row(Str(<<"P", "2">>), Str(<<"Y">>), Str(<<"B">>), Num(20), Date(2025, 1, 15), Str(<<"G", "K">>)),
      Row(Str(<<"P", "3">>), Str(<<"X">>), Str(<<"A">>), NaN, Date(2025, 7, 20), Str(<<"C", "F">>)),
      Row(Str(<<"P", "4">>), Str(<<"X">>), Str(<<"B">>), Num(20), NaT, Null),
      Row(Str(<<"P", "5">>), Str(<<"Y">>), Str(<<"A">>), NaN, NaT, Str(<<>>)),
      Row(Str(<<"P", "6">>), Str(<<"Y">>), Str(<<"B">>), Rat(5, 2), Date(2024, 1, 31), Str(<<"G", "K">>)),
      Row(Str(<<"P", "7">>), Null, Str(<<"C">>), Num(30), Date(2025, 12, 31), Str(<<"C", "F">>)),
      Row(Str(<<"P", "8">>), Str(<<"Z">>), Null, Num(0), Date(2025, 7, 1), Str(<<>>)) }

\* the decimal text of a natural number
RECURSIVE DecimalText(_)
DecimalText(n) ==
    LET c == CHOOSE x \in Digits : DigitVal(x) = n % 10
    IN  IF n < 10 THEN <<c>> ELSE DecimalText(n \div 10) \o <<c>>

ClubName(i) == Str(<<"C">> \o DecimalText(i))

\* long tables: row i is a move into a club of its own from an earlier
\* row's club, or the other way round
LongRow(i, fresh) ==
    LET own == ClubName(i)
        old == ClubName((i + 1) \div 2)
        fee == IF i % 4 = 0 THEN NaN ELSE Num(1 + (i % 3))
    IN  Row(Str(<<"P">> \o DecimalText(i)),
            IF fresh THEN old ELSE own,
            IF fresh THEN own ELSE old,
            fee,
            IF i % 5 = 0 THEN NaT ELSE Date(2025, 1 + (i % 12), 1),
            Str(<<"C", "F">>))

LongTables ==
    {[i \in DOMAIN choice |-> LongRow(i, choice[i])] :
        choice \in UNION {[1..l -> BOOLEAN] : l \in (TopN - 1)..MaxTopRows}}

SummaryTables == SeqsUpTo(SummaryRows, MaxRows) \cup LongTables

(***************************************************************************)
(* Console output and the saved file.                                      *)
(***************************************************************************)
\* format(x, '.1f'): the tenths nearest to x, ties to even
Tenths(x) ==
    LET num == IF x.e + 1 >= 0 THEN x.n * Pow10(x.e + 1) ELSE x.n
        den == IF x.e + 1 >= 0 THEN x.d ELSE x.d * Pow10(-(x.e + 1))
        q == num \div den
        r == num % den
    IN  IF 2 * r > den \/ (2 * r = den /\ q % 2 = 1) THEN q + 1 ELSE q

ProcessedLine(n) == [text |-> "Processed transfers", count |-> n, nan |-> FALSE]
TotalLine(x) ==
    [text |-> "Total spending", count |-> IF IsNaN(x) THEN 0 ELSE Tenths(x),
     nan |-> IsNaN(x)]
NoDataLine == [text |-> "No transfer data found", count |-> 0, nan |-> FALSE]

\* summary.get('total_spending', 0)
TotalSpendingOf(sm) == IF sm.empty THEN Num(0) ELSE sm.total_spending

NoException == "none"

(***************************************************************************)
(* main(): one action per statement.                                       *)
(***************************************************************************)
Init ==
    /\ pc = "start"
    /\ fee_string = <<>>
    /\ fee_result = Num(0)
    /\ transfers = <<>>
    /\ df = <<>>
    /\ summary = EmptySummary
    /\ file = "absent"
    /\ console = <<>>
    /\ exc = NoException

\* line 213, lines 52-56: the request succeeds and answers a list
FetchOk ==
    /\ pc = "start"
    /\ \E ts \in SeqsUpTo(FetchRecords, MaxFetch) : transfers' = ts
    /\ pc' = "fetched"
    /\ UNCHANGED <<fee_string, fee_result, df, summary, file, console, exc>>

\* line 213, lines 58-60: a RequestException is caught, [] is returned
FetchFail ==
    /\ pc = "start"
    /\ transfers' = <<>>
    /\ pc' = "fetched"
    /\ UNCHANGED <<fee_string, fee_result, df, summary, file, console, exc>>

\* process_transfer_data(transfers) called at pc = at, continuing at next
ProcessCall(at, next) ==
    /\ pc = at
    /\ IF ProcessRaises(transfers)
       THEN /\ exc' = "AttributeError"
            /\ pc' = "crashed"
            /\ df' = df
       ELSE /\ df' = ProcessTransferData(transfers)
            /\ pc' = next
            /\ exc' = exc
    /\ UNCHANGED <<fee_string, fee_result, transfers, summary, file, console>>

\* lines 215-217
Process ==
    /\ transfers # <<>>
    /\ ProcessCall("fetched", "processed")

\* lines 238-239
NoData ==
    /\ pc = "fetched"
    /\ transfers = <<>>
    /\ console' = Append(console, NoDataLine)
    /\ pc' = "done"
    /\ UNCHANGED <<fee_string, fee_result, transfers, df, summary, file, exc>>

\* generate_transfer_summary(df) called at pc = at, continuing at next
SummarizeCall(at, next) ==
    /\ pc = at
    /\ summary' = GenerateTransferSummary(df)
    /\ pc' = next
    /\ UNCHANGED <<fee_string, fee_result, transfers, df, file, console, exc>>

\* line 220
Summarize == SummarizeCall("processed", "summarized")

\* line 234, lines 199-202: the document is written
SaveOk ==
    /\ pc = "summarized"
    /\ file' = "written"
    /\ pc' = "saved"
    /\ UNCHANGED <<fee_string, fee_result, transfers, df, summary, console, exc>>

\* line 234, lines 203-204: the write raises, the exception is caught
SaveFail ==
    /\ pc = "summarized"
    /\ file' = "failed"
    /\ pc' = "saved"
    /\ UNCHANGED <<fee_string, fee_result, transfers, df, summary, console, exc>>

\* line 236
PrintCount ==
    /\ pc = "saved"
    /\ console' = Append(console, ProcessedLine(Len(df)))
    /\ pc' = "counted"
    /\ UNCHANGED <<fee_string, fee_result, transfers, df, summary, file, exc>>

\* line 237
PrintTotal ==
    /\ pc = "counted"
    /\ console' = Append(console, TotalLine(TotalSpendingOf(summary)))
    /\ pc' = "done"
    /\ UNCHANGED <<fee_string, fee_result, transfers, df, summary, file, exc>>

Next ==
    \/ FetchOk \/ FetchFail \/ Process \/ NoData \/ Summarize
    \/ SaveOk \/ SaveFail \/ PrintCount \/ PrintTotal

Spec == Init /\ [][Next]_vars

(***************************************************************************)
(* The pure functions on bounded inputs.                                   *)
(***************************************************************************)
InitFee ==
    /\ pc = "fee_in"
    /\ fee_string \in FeeTexts
    /\ fee_result = Num(0)
    /\ transfers = <<>>
    /\ df = <<>>
    /\ summary = EmptySummary
    /\ file = "absent"
    /\ console = <<>>
    /\ exc = NoException

ParseFee ==
    /\ pc = "fee_in"
    /\ fee_result' = ParseTransferFee(fee_string)
    /\ pc' = "fee_out"
    /\ UNCHANGED <<fee_string, transfers, df, summary, file, console, exc>>

SpecFee == InitFee /\ [][ParseFee]_vars

InitNorm ==
    /\ pc = "norm_in"
    /\ fee_string = <<>>
    /\ fee_result = Num(0)
    /\ transfers \in SeqsUpTo(RawRecords, MaxRaw) \ {<<>>}
    /\ df = <<>>
    /\ summary = EmptySummary
    /\ file = "absent"
    /\ console = <<>>
    /\ exc = NoException

Normalize == ProcessCall("norm_in", "norm_out")

SpecNorm == InitNorm /\ [][Normalize]_vars

InitSummary ==
    /\ pc = "sum_in"
    /\ fee_string = <<>>
    /\ fee_result = Num(0)
    /\ transfers = <<>>
    /\ df \in SummaryTables
    /\ summary = EmptySummary
    /\ file = "absent"
    /\ console = <<>>
    /\ exc = NoException

SummarizeTable == SummarizeCall("sum_in", "sum_out")

SpecSummary == InitSummary /\ [][SummarizeTable]_vars

(***************************************************************************)
(* Properties.                                                             *)
(***************************************************************************)
Returned(at) == pc = at

\* a signed decimal literal: the numeric part of a fee text
IsNumeric(s) == IsDecimal(Unsigned(s))

\* the text with a final M or K taken off
SuffixOf(c) == IF c # <<>> /\ c[Len(c)] \in {"M", "K"} THEN c[Len(c)] ELSE ""
BodyOf(c) == IF SuffixOf(c) = "" THEN c ELSE SubSeq(c, 1, Len(c) - 1)

HasFee(r) == ~IsNaN(r.transfer_fee)
FeeRows(table) == SelectSeq(table, HasFee)
Dated(r) == r.transfer_date.k = "date"

\* fees of the rows of a table that hold one and satisfy Keep, summed in
\* table order
RECURSIVE FeeTotal(_)
FeeTotal(rows) ==
    IF rows = <<>> THEN Num(0)
    ELSE Add(Head(rows).transfer_fee, FeeTotal(Tail(rows)))

FeeSum(table, Keep(_)) == FeeTotal(SelectSeq(FeeRows(table), Keep))

\* C1: normalizing any raw mapping, with fields absent or malformed, raises
\* no exception and returns one flat record per mapping with all 18 fields.
C1_NormalizerTotal ==
    pc \in {"norm_out", "crashed"} =>
        /\ exc = NoException
        /\ Len(df) = Len(transfers)
        /\ \A i \in 1..Len(df) : DOMAIN df[i] = FlatFields

\* C2: for every fee text the parser returns a number, and it returns 0.0
\* for the empty text, for a no-fee word in any case, and for a text whose
\* remainder after removing the currency signs, the spaces and the M/K suffix
\* is not numeric.
C2_UnparseableIsZero ==
    Returned("fee_out") =>
        /\ IsNum(fee_result)
        /\ (IsNoFee(fee_string) \/ ~IsNumeric(BodyOf(FeeClean(fee_string))))
               => fee_result = Num(0)

\* C3: a fee text that is no no-fee word and whose numeric part is n parses
\* to n with the suffix M, to n/1000 with the suffix K and to n/1000000 with
\* no suffix; "€100M" gives 100.0, "500K" gives 0.5, "500000" gives 0.5.
C3_SuffixScaling ==
    Returned("fee_out") =>
        LET c == FeeClean(fee_string)
            n == FloatOf(BodyOf(c))
        IN  /\ (~IsNoFee(fee_string) /\ IsNumeric(BodyOf(c))) =>
                   /\ SuffixOf(c) = "M" => fee_result = n
                   /\ SuffixOf(c) = "K" => fee_result = Norm(n.n, n.d, n.e - 3)
                   /\ SuffixOf(c) = "" => fee_result = Norm(n.n, n.d, n.e - 6)
            /\ fee_string = <<"€", "1", "0", "0", "M">> => fee_result = Num(100)
            /\ fee_string = <<"5", "0", "0", "K">> => fee_result = Rat(1, 2)
            /\ fee_string = <<"5", "0", "0", "0", "0", "0">> => fee_result = Rat(1, 2)

C3_Witness ==
    /\ Returned("fee_out")
    /\ fee_string = <<"1", ".", "5", "K">>
    /\ fee_result = Rat(3, 2000)

\* C4 as stated: normalizing {} yields player_name "", player_age null,
\* transfer_fee 0.0 and transfer_fee_currency "EUR".
C4_EmptyRecordAgeNull ==
    (Returned("norm_out") /\ transfers = <<EmptyRaw>>) =>
        /\ df[1].player_name = Str(<<>>)
        /\ IsNaN(df[1].player_age)
        /\ df[1].transfer_fee = Num(0)
        /\ df[1].transfer_fee_currency = EUR

\* C4 as amended: normalizing {} yields player_name "", player_age 0,
\* transfer_fee 0.0 and transfer_fee_currency "EUR", wherever {} stands in
\* the list.
C4_EmptyRecordDefaults ==
    Returned("norm_out") =>
        \A i \in 1..Len(transfers) :
            transfers[i] = EmptyRaw =>
                /\ df[i].player_name = Str(<<>>)
                /\ df[i].player_age = Num(0)
                /\ df[i].transfer_fee = Num(0)
                /\ df[i].transfer_fee_currency = EUR

C4_Witness ==
    /\ Returned("norm_out")
    /\ transfers = <<EmptyRaw>>
    /\ df[1].player_age = Num(0)

\* x * c for an integer c
Times(x, c) == Norm(x.n * c, x.d, x.e)

\* m is the median of the fees of rows (none null, at least one), by rank
IsMedianOf(m, rows) ==
    LET n == Len(rows)
        fees == {rows[i].transfer_fee : i \in 1..n}
        Below(x) == Cardinality({i \in 1..n : Less(rows[i].transfer_fee, x)})
        Above(x) == Cardinality({i \in 1..n : Less(x, rows[i].transfer_fee)})
        \* x is the k-th smallest fee
        RankIs(x, k) == x \in fees /\ Below(x) < k /\ Above(x) <= n - k
    IN  IF n % 2 = 1
        THEN RankIs(m, (n + 1) \div 2)
        ELSE \E a, b \in fees :
                /\ RankIs(a, n \div 2)
                /\ RankIs(b, n \div 2 + 1)
                /\ Times(m, 2) = Add(a, b)

TableC5 ==
    << Row(Str(<<"P", "1">>), Str(<<"X">>), Str(<<"A">>), Num(10), Date(2025, 7, 1), Str(<<"C", "F">>)),
       Row(Str(<<"P", "2">>), Str(<<"Y">>), Str(<<"B">>), Num(20), Date(2025, 1, 15), Str(<<"G", "K">>)),
       Row(Str(<<"P", "3">>), Str(<<"X">>), Str(<<"A">>), NaN, Date(2025, 7, 20), Str(<<"C", "F">>)) >>

\* C5: total_spending, average_fee and median_fee are taken over the rows
\* with a non-null fee only: a null fee is in neither the sum nor the
\* divisor.  Fees [10, 20, null] into clubs [A, B, A] give total 30,
\* average 15 and top_spending_clubs {A: 10, B: 20}.
C5_NullFeesExcluded ==
    (Returned("sum_out") /\ df # <<>>) =>
        LET rows == FeeRows(df)
            total == FeeSum(df, LAMBDA r : TRUE)
        IN  /\ summary.total_spending = total
            /\ rows # <<>> =>
                   /\ Times(summary.average_fee, Len(rows)) = total
                   /\ IsMedianOf(summary.median_fee, rows)
            /\ rows = <<>> =>
                   /\ IsNaN(summary.average_fee)
                   /\ IsNaN(summary.median_fee)
            /\ df = TableC5 =>
                   /\ summary.total_spending = Num(30)
                   /\ summary.average_fee = Num(15)
                   /\ {summary.top_spending_clubs[g] :
                          g \in DOMAIN summary.top_spending_clubs}
                        = {[club |-> Str(<<"A">>), total |-> Num(10)],
                           [club |-> Str(<<"B">>), total |-> Num(20)]}

C5_Witness ==
    /\ Returned("sum_out")
    /\ df = TableC5
    /\ summary.average_fee = Num(15)

\* C6: with at least one non-null fee, most_expensive_transfer holds the
\* player, fee and clubs of the lowest-index row whose fee is the maximum.
C6_FirstMaximalRow ==
    (Returned("sum_out") /\ FeeRows(df) # <<>>) =>
        \E i \in 1..Len(df) :
            /\ HasFee(df[i])
            /\ \A j \in 1..Len(df) :
                   HasFee(df[j]) =>
                       /\ ~Less(df[i].transfer_fee, df[j].transfer_fee)
                       /\ j < i => Less(df[j].transfer_fee, df[i].transfer_fee)
            /\ summary.most_expensive_transfer =
                   [player |-> df[i].player_name, fee |-> df[i].transfer_fee,
                    from_club |-> df[i].from_club_name,
                    to_club |-> df[i].to_club_name]

C6_Witness ==
    /\ Returned("sum_out")
    /\ Len(df) = 2
    /\ df[1].transfer_fee = Num(20) /\ df[2].transfer_fee = Num(20)
    /\ df[1].player_name = Str(<<"P", "2">>) /\ df[2].player_name = Str(<<"P", "4">>)
    /\ summary.most_expensive_transfer.player = Str(<<"P", "2">>)

\* C7: a row with a null date counts in total_transfers and enters no entry
\* of transfers_by_month; every dated row adds its fee to the entry of its
\* month, a key in 1..12; the entries sum to the fees of the dated rows.
C7_MonthGroupingSkipsNullDates ==
    (Returned("sum_out") /\ df # <<>>) =>
        LET tbm == summary.transfers_by_month
        IN  /\ summary.total_transfers = Len(df)
            /\ DOMAIN tbm \subseteq 1..12
            /\ DOMAIN tbm =
                   {df[i].transfer_date.m : i \in {j \in 1..Len(df) : Dated(df[j])}}
            /\ \A m \in DOMAIN tbm :
                   tbm[m] = FeeSum(df, LAMBDA r : Dated(r) /\ r.transfer_date.m = m)
            /\ SumOver(tbm, DOMAIN tbm) = FeeSum(df, Dated)

C7_Witness ==
    /\ Returned("sum_out")
    /\ Len(df) = 2
    /\ Dated(df[1]) /\ ~Dated(df[2]) /\ HasFee(df[2]) /\ df[2].transfer_fee # Num(0)
    /\ summary.total_transfers = 2
    /\ DOMAIN summary.transfers_by_month = {df[1].transfer_date.m}

\* a top-10 report of the sums of the fees grouped by the club name `field`
IsTopReport(top, table, field) ==
    LET clubs == {table[i][field] : i \in 1..Len(table)} \ {Null}
        SumOf(c) == FeeSum(table, LAMBDA r : r[field] = c)
        shown == {top[g].club : g \in DOMAIN top}
    IN  /\ Len(top) <= 10
        /\ Len(top) = IF Cardinality(clubs) < 10 THEN Cardinality(clubs) ELSE 10
        /\ shown \subseteq clubs
        /\ Cardinality(shown) = Len(top)
        /\ \A g \in DOMAIN top : top[g].total = SumOf(top[g].club)
        /\ \A g, h \in DOMAIN top : g < h => ~Less(top[g].total, top[h].total)
        /\ \A c \in clubs \ shown : \A g \in DOMAIN top : ~Less(top[g].total, SumOf(c))

\* C8: top_spending_clubs (by to_club_name) and top_selling_clubs (by
\* from_club_name) hold at most 10 entries, each the sum of the fees of all
\* rows of its club, in descending order, and no club left out has a
\* strictly larger sum than a club included.
C8_TopTenClubs ==
    (Returned("sum_out") /\ df # <<>>) =>
        /\ IsTopReport(summary.top_spending_clubs, df, "to_club_name")
        /\ IsTopReport(summary.top_selling_clubs, df, "from_club_name")

C8_Witness ==
    /\ Returned("sum_out")
    /\ Cardinality({df[i].to_club_name : i \in 1..Len(df)}) > 10
    /\ Len(summary.top_spending_clubs) = 10
    /\ \E i, j \in 1..Len(df) : i # j /\ df[i].from_club_name = df[j].from_club_name

Terminated == pc \in {"done", "crashed"}

\* C9: a run of main that fetched at least one record ends with the summary
\* lines (record count, total spending) printed, also when the write of the
\* file failed; a run that fetched nothing ends with the "no data" message
\* printed and nothing processed or saved.
C9_SummaryLinePrinted ==
    Terminated =>
        IF transfers # <<>>
        THEN /\ exc = NoException
             /\ console = <<ProcessedLine(Len(transfers)),
                            TotalLine(FeeSum(df, LAMBDA r : TRUE))>>
        ELSE /\ console = <<NoDataLine>>
             /\ df = <<>> /\ summary = EmptySummary /\ file = "absent"

\* C10: for a non-empty table whose fees are all null, the summary is
\* produced and most_expensive_transfer is empty: player, from_club and
\* to_club are "" and fee is 0.
C10_AllNullFeesEmptyReport ==
    (Returned("sum_out") /\ df # <<>> /\ FeeRows(df) = <<>>) =>
        summary.most_expensive_transfer =
            [player |-> Str(<<>>), fee |-> Num(0),
             from_club |-> Str(<<>>), to_club |-> Str(<<>>)]

====
